---- MODULE Spec2Model ----
(***************************************************************************)
(* The chat pipeline of the SaaS boilerplate server: the users,            *)
(* conversations, messages and subscriptions tables, the authentication    *)
(* middleware, the AI router and the chat, auth and Stripe routes.         *)
(*                                                                         *)
(* A route handler runs atomically from one `await` to the next, so each   *)
(* POST /api/chat and POST /api/stripe/create-checkout request is a        *)
(* process whose steps are the stretches of code between its awaits on an  *)
(* external service; two requests may be in flight at once.                *)
(*                                                                         *)
(* Conventions: a JavaScript value that is undefined, null or '' is the    *)
(* empty string "" (all are falsy, which is all the code asks of them);    *)
(* a message text is a sequence of characters; an identifier produced by   *)
(* generateId is a fresh integer; a timestamp is the value of the clock    *)
(* `now`, which has the resolution of CURRENT_TIMESTAMP (one second in     *)
(* SQLite), so that several rows may carry the same timestamp.             *)
(***************************************************************************)
EXTENDS Integers, Sequences, FiniteSets, TLC

\* ------------------------------------------------------------------ bounds
MaxIds == 3
MaxClock == 1
MaxSubs == 1
MaxCustomers == 2
MaxSessions == 2

\* ------------------------------------------------------- program constants
HistoryLimit == 20
ConversationLimit == 50
TitleLength == 50

\* ------------------------------------------------------------- input sets
\* The requests of POST /api/chat that may be in flight together.
Reqs == 1..2
UserIds == {"u1", "u2"}
Emails == {"a@x", "b@x"}
Names == {"Ann"}
Texts == {<<"h", "i">>}
\* A conversationId no conversation has.
StaleId == 99
Undefined == "undefined"
ModelInputs == {Undefined, "gpt-4o", "gpt-5", "constructor"}
\* process.env: NODE_ENV, DEV_USER_ID and the API keys that are set.
Environments ==
  { [production |-> FALSE, devUserId |-> "", anthropic |-> TRUE, openai |-> FALSE,
     stripe |-> TRUE],
    [production |-> TRUE, devUserId |-> "", anthropic |-> FALSE, openai |-> TRUE,
     stripe |-> FALSE] }
KeyEnvironments ==
  { [production |-> FALSE, devUserId |-> "", anthropic |-> a, openai |-> o,
     stripe |-> FALSE] : a \in BOOLEAN, o \in BOOLEAN }
\* What a request carries of req.session.userId, req.auth.userId, the
\* x-user-id header and the userId query parameter.
Session(u) == [session |-> u, clerk |-> "", header |-> "", query |-> ""]
AuthInputs ==
  { [session |-> "", clerk |-> "", header |-> "", query |-> ""],
    [session |-> "u1", clerk |-> "", header |-> "u2", query |-> ""],
    [session |-> "", clerk |-> "u2", header |-> "", query |-> "u1"],
    [session |-> "", clerk |-> "", header |-> "u1", query |-> "u2"],
    [session |-> "", clerk |-> "", header |-> "", query |-> "u2"] }
\* Every combination of the four sources, each with an identity of its own,
\* and every setting of NODE_ENV and DEV_USER_ID.
Sources ==
  [session : {"", "u1"}, clerk : {"", "u2"}, header : {"", "u3"}, query : {"", "u4"}]
AuthEnvironments ==
  { [production |-> p, devUserId |-> d, anthropic |-> TRUE, openai |-> FALSE,
     stripe |-> FALSE] : p \in BOOLEAN, d \in {"", "dev1"} }
\* The vendor's replies.
Replies ==
  { [text |-> <<"o", "k">>, inputTokens |-> 1000, outputTokens |-> 500] }
\* The vendor's replies with their token counts; a count the vendor leaves out
\* is 0 (usage?.input_tokens || 0).
UsageReplies ==
  { [text |-> <<"o", "k">>, inputTokens |-> i, outputTokens |-> o] :
      i \in {0, 1, 1000}, o \in {0, 500} }
\* The Stripe events delivered to the webhook.
Events ==
  { [type |-> "checkout.session.completed", userId |-> u, plan |-> p,
     subscription |-> "sub_1", status |-> ""] : u \in {"", "u1", "dev-user"}, p \in {"", "pro"} }
  \cup { [type |-> t, userId |-> "", plan |-> "", subscription |-> "sub_1",
          status |-> "past_due"] :
            t \in {"customer.subscription.updated", "invoice.paid"} }
\* The requests of POST /api/stripe/create-checkout that may be in flight
\* together, and the plans they ask for.
Checkouts == 1..2
PlanInputs == {"", "pro", "enterprise", "gold"}
\* The database a long-running server holds: one conversation of u1 with
\* this many messages, one turn a second.
LongConvId == 100
LongSizes == {20}

VARIABLES env, now, nextId, users, conversations, messages, subscriptions,
          req, failed, out, stripeCustomers, checkoutSessions, checkout

vars == <<env, now, nextId, users, conversations, messages, subscriptions,
          req, failed, out, stripeCustomers, checkoutSessions, checkout>>

\* ------------------------------------------------------------ JavaScript
\* a || b on strings: the first operand unless it is falsy.
Or(a, b) == IF a # "" THEN a ELSE b

Min(a, b) == IF a <= b THEN a ELSE b

\* s.substring(0, n)
Substring(s, n) == SubSeq(s, 1, Min(n, Len(s)))

\* ------------------------------------------------------------- AI router
\* Prices are in units of 10^-8 dollars per 1000 tokens.
MODELS ==
  [m \in {"claude-3-5-sonnet", "claude-3-haiku", "gpt-4o", "gpt-4o-mini"} |->
     CASE m = "claude-3-5-sonnet" ->
            [provider |-> "anthropic", modelId |-> "claude-3-5-sonnet-20241022",
             maxTokens |-> 8192, inputCostPer1k |-> 300000, outputCostPer1k |-> 1500000]
       [] m = "claude-3-haiku" ->
            [provider |-> "anthropic", modelId |-> "claude-3-haiku-20240307",
             maxTokens |-> 4096, inputCostPer1k |-> 25000, outputCostPer1k |-> 125000]
       [] m = "gpt-4o" ->
            [provider |-> "openai", modelId |-> "gpt-4o",
             maxTokens |-> 4096, inputCostPer1k |-> 500000, outputCostPer1k |-> 1500000]
       [] m = "gpt-4o-mini" ->
            [provider |-> "openai", modelId |-> "gpt-4o-mini",
             maxTokens |-> 4096, inputCostPer1k |-> 15000, outputCostPer1k |-> 60000]]

\* Property names every object literal inherits from Object.prototype: MODELS[k]
\* is a truthy value without a `provider` for each of them.
InheritedKeys == {"constructor", "toString", "__proto__"}

\* MODELS[model]: the entry, a value without `provider` for an inherited
\* property, or undefined.
Lookup(model) ==
  IF model \in DOMAIN MODELS THEN MODELS[model]
  ELSE IF model \in InheritedKeys THEN [provider |-> ""]
  ELSE [undefined |-> TRUE]

\* Whether the client of a provider was constructed (its API key is set).
Client(provider) ==
  IF provider = "anthropic" THEN env.anthropic ELSE env.openai

\* chat(), up to the point where an adapter awaits the vendor: the error it
\* throws, or "" when the adapter has issued its network call.
ChatError(model) ==
  LET modelConfig == Lookup(model) IN
  IF "undefined" \in DOMAIN modelConfig THEN "Unknown model"
  ELSE IF modelConfig.provider = "anthropic"
    THEN (IF ~Client("anthropic") THEN "Anthropic API key not configured" ELSE "")
  ELSE IF modelConfig.provider = "openai"
    THEN (IF ~Client("openai") THEN "OpenAI API key not configured" ELSE "")
  ELSE "Unsupported provider"

\* Every exchange billed at the input price.
CostAtInputPrice(modelConfig, inputTokens, outputTokens) ==
  ((inputTokens + outputTokens) * modelConfig.inputCostPer1k) \div 1000

\* (inputTokens / 1000 * inputCostPer1k) + (outputTokens / 1000 * outputCostPer1k)
\* in units of 10^-8 dollars. Every price of MODELS is a multiple of 1000 of
\* these units, so the division is exact for every whole number of tokens.
Cost(modelConfig, inputTokens, outputTokens) ==
  (inputTokens * modelConfig.inputCostPer1k) \div 1000
    + (outputTokens * modelConfig.outputCostPer1k) \div 1000

\* What chatAnthropic returns for the vendor's response: the counts are
\* response.usage.input_tokens and response.usage.output_tokens.
chatAnthropic(modelConfig, response) ==
  LET inputTokens == response.inputTokens
      outputTokens == response.outputTokens
  IN [content |-> response.text,
      model |-> modelConfig.modelId,
      usage |-> [inputTokens |-> inputTokens,
                 outputTokens |-> outputTokens,
                 totalTokens |-> inputTokens + outputTokens,
                 cost |-> Cost(modelConfig, inputTokens, outputTokens)]]

\* What chatOpenAI returns for the vendor's response: the counts are
\* response.usage.prompt_tokens and response.usage.completion_tokens.
chatOpenAI(modelConfig, response) ==
  LET inputTokens == response.inputTokens
      outputTokens == response.outputTokens
  IN [content |-> response.text,
      model |-> modelConfig.modelId,
      usage |-> [inputTokens |-> inputTokens,
                 outputTokens |-> outputTokens,
                 totalTokens |-> inputTokens + outputTokens,
                 cost |-> Cost(modelConfig, inputTokens, outputTokens)]]

\* What chat() returns once the vendor has replied.
ChatResult(model, reply) ==
  LET modelConfig == MODELS[model] IN
  IF modelConfig.provider = "anthropic"
    THEN chatAnthropic(modelConfig, reply)
    ELSE chatOpenAI(modelConfig, reply)

\* ------------------------------------------------------------ middleware
\* The chain read from the query parameter to the session.
flexibleAuthReversed(src) ==
  LET userId == Or(src.query, Or(src.header, Or(src.clerk, src.session))) IN
  IF userId = "" /\ env.production THEN [status |-> 401, userId |-> ""]
  ELSE IF userId = "" /\ ~env.production
    THEN [status |-> 0, userId |-> Or(env.devUserId, "dev-user")]
  ELSE [status |-> 0, userId |-> userId]

flexibleAuth(src) ==
  LET userId == Or(src.session, Or(src.clerk, Or(src.header, src.query))) IN
  IF userId = "" /\ env.production THEN [status |-> 401, userId |-> ""]
  ELSE IF userId = "" /\ ~env.production
    THEN [status |-> 0, userId |-> Or(env.devUserId, "dev-user")]
  ELSE [status |-> 0, userId |-> userId]

\* -------------------------------------------------------------- database
ConversationIds == {conversations[i].id : i \in 1..Len(conversations)}

\* FOREIGN KEY (user_id) REFERENCES users(id), PRIMARY KEY (id)
CanInsertConversation(id, user_id) ==
  user_id \in DOMAIN users /\ id \notin ConversationIds

\* The insert when the foreign key is not enforced.
CanInsertMessageUnchecked(conversation_id) == TRUE

\* FOREIGN KEY (conversation_id) REFERENCES conversations(id)
CanInsertMessage(conversation_id) ==
  conversation_id \in ConversationIds

\* FOREIGN KEY (user_id) REFERENCES users(id)
CanInsertSubscription(user_id) ==
  user_id \in DOMAIN users

ConversationRow(id, user_id, title) ==
  [id |-> id, user_id |-> user_id, title |-> title,
   created_at |-> now, updated_at |-> now]

MessageRow(id, conversation_id, role, content, model, tokens_used, cost) ==
  [id |-> id, conversation_id |-> conversation_id, role |-> role,
   content |-> content, model |-> model, tokens_used |-> tokens_used,
   cost |-> cost, created_at |-> now]

\* The positions of the rows of table t that satisfy the WHERE clause.
ConversationsOf(user_id) ==
  {i \in 1..Len(conversations) : conversations[i].user_id = user_id}

MessagesOf(conversation_id) ==
  {i \in 1..Len(messages) : messages[i].conversation_id = conversation_id}

\* ORDER BY created_at ASC over the rows at positions S of messages: every
\* arrangement in which created_at never decreases (SQL leaves the order of
\* rows with equal keys open).
RECURSIVE OrderByCreatedAsc(_)
OrderByCreatedAsc(S) ==
  IF S = {} THEN {<<>>}
  ELSE LET first == {i \in S : \A j \in S : messages[i].created_at <= messages[j].created_at}
       IN UNION {{<<i>> \o t : t \in OrderByCreatedAsc(S \ {i})} : i \in first}

\* ORDER BY updated_at DESC over the rows at positions S of conversations.
RECURSIVE OrderByUpdatedDesc(_)
OrderByUpdatedDesc(S) ==
  IF S = {} THEN {<<>>}
  ELSE LET first == {i \in S : \A j \in S :
                       conversations[i].updated_at >= conversations[j].updated_at}
       IN UNION {{<<i>> \o t : t \in OrderByUpdatedDesc(S \ {i})} : i \in first}

\* The statement without AND user_id = ?
SelectConversationOfAnyone(id, user_id) ==
  {i \in 1..Len(conversations) : conversations[i].id = id}

\* SELECT * FROM conversations WHERE id = ? AND user_id = ?
SelectConversation(id, user_id) ==
  {i \in 1..Len(conversations) :
     conversations[i].id = id /\ conversations[i].user_id = user_id}

\* LIMIT n
Limit(s, n) == SubSeq(s, 1, Min(n, Len(s)))

\* The statement with ORDER BY created_at DESC: the newest 20, newest first.
SelectHistoryDesc(conversation_id) ==
  { [k \in 1..Len(s) |-> [id |-> messages[s[k]].id, role |-> messages[s[k]].role,
                          content |-> messages[s[k]].content]] :
      s \in {Limit([k \in 1..Len(t) |-> t[Len(t) + 1 - k]], HistoryLimit) :
               t \in OrderByCreatedAsc(MessagesOf(conversation_id))} }

\* The statement without its LIMIT.
SelectHistoryUnbounded(conversation_id) ==
  { [k \in 1..Len(s) |-> [id |-> messages[s[k]].id, role |-> messages[s[k]].role,
                          content |-> messages[s[k]].content]] :
      s \in OrderByCreatedAsc(MessagesOf(conversation_id)) }

\* SELECT role, content FROM messages WHERE conversation_id = ?
\*   ORDER BY created_at ASC LIMIT 20
\* The results the statement may give; `id` is kept beside the two selected
\* columns to tell the rows apart.
SelectHistory(conversation_id) ==
  { [k \in 1..Len(s) |-> [id |-> messages[s[k]].id, role |-> messages[s[k]].role,
                          content |-> messages[s[k]].content]] :
      s \in {Limit(t, HistoryLimit) : t \in OrderByCreatedAsc(MessagesOf(conversation_id))} }

\* ------------------------------------------------------ request processes
Idle ==
  [pc |-> "idle", userId |-> "", convId |-> 0, message |-> <<>>, model |-> "",
   history |-> <<>>, loadedAt |-> 0, userMsgId |-> 0, sent |-> <<>>]

NoOut == [kind |-> "none"]

Response(kind, status, body) == [kind |-> kind, status |-> status, body |-> body]

\* The catch block of POST /api/chat: the error is logged, the reply is generic.
ChatFailure(error) ==
  [kind |-> "chat", status |-> 500, body |-> "Failed to get AI response", log |-> error]

\* const messages = [...history, { role: 'user', content: message }]
\* projected on the columns the statement selects.
Payload(history, message) ==
  [k \in 1..Len(history) |-> [role |-> history[k].role, content |-> history[k].content]]
    \o <<[role |-> "user", content |-> message]>>

Finish(r, response) ==
  /\ req' = [req EXCEPT ![r] = Idle]
  /\ out' = response

\* ---------------------------------------------------------------- Stripe
\* PLANS, of which the handler reads priceId: STRIPE_PRICE_STARTER and
\* STRIPE_PRICE_PRO are set, STRIPE_PRICE_ENTERPRISE is not.
PLANS ==
  [plan \in {"starter", "pro", "enterprise"} |->
     [priceId |-> CASE plan = "starter" -> "price_starter"
                    [] plan = "pro" -> "price_pro"
                    [] plan = "enterprise" -> ""]]

\* The id Stripe gives to the n-th customer of the account.
CustomerId(n) == "cus_" \o ToString(n)

\* The customers Stripe holds with metadata.userId = userId.
CustomersOf(userId) ==
  {k \in 1..Len(stripeCustomers) : stripeCustomers[k].userId = userId}

\* SELECT email, stripe_customer_id FROM users WHERE id = ?  , then
\* user?.stripe_customer_id
StoredCustomerId(userId) ==
  IF userId \in DOMAIN users THEN users[userId].stripe_customer_id ELSE ""

IdleCheckout == [pc |-> "idle", userId |-> "", plan |-> "", customerId |-> ""]

FinishCheckout(c, response) ==
  /\ checkout' = [checkout EXCEPT ![c] = IdleCheckout]
  /\ out' = response

\* ------------------------------------------------------------------ Init
EmptyStore ==
  /\ now = 0
  /\ nextId = 1
  /\ users = <<>>
  /\ conversations = <<>>
  /\ messages = <<>>
  /\ subscriptions = <<>>
  /\ req = [r \in Reqs |-> Idle]
  /\ failed = {}
  /\ out = NoOut
  /\ stripeCustomers = <<>>
  /\ checkoutSessions = <<>>
  /\ checkout = [c \in Checkouts |-> IdleCheckout]

\* A server started on an empty database.
Init ==
  /\ env \in Environments
  /\ EmptyStore

\* A server started on an empty database, for each set of API keys.
InitRouter ==
  /\ env \in KeyEnvironments
  /\ EmptyStore

\* The n messages of the earlier turns of one conversation, one message a
\* second, the last of them a second ago.
LongMessages(n) ==
  [k \in 1..n |->
     IF k % 2 = 1
       THEN [id |-> LongConvId + k, conversation_id |-> LongConvId, role |-> "user",
             content |-> <<"h", "i">>, model |-> "", tokens_used |-> 0, cost |-> 0,
             created_at |-> k - n - 1]
       ELSE [id |-> LongConvId + k, conversation_id |-> LongConvId, role |-> "assistant",
             content |-> <<"o", "k">>, model |-> MODELS["claude-3-5-sonnet"].modelId,
             tokens_used |-> 1500,
             cost |-> Cost(MODELS["claude-3-5-sonnet"], 1000, 500),
             created_at |-> k - n - 1]]

\* A server with both API keys set.
InitCost ==
  /\ env = [production |-> FALSE, devUserId |-> "", anthropic |-> TRUE,
            openai |-> TRUE, stripe |-> FALSE]
  /\ EmptyStore

\* A server started on an empty database, for each NODE_ENV and DEV_USER_ID.
InitAuth ==
  /\ env \in AuthEnvironments
  /\ EmptyStore

\* A server whose users are registered and have not opened a checkout yet.
InitCheckout ==
  /\ env \in Environments
  /\ now = 0
  /\ nextId = 1
  /\ users = [u \in UserIds |->
                [email |-> IF u = "u1" THEN "a@x" ELSE "b@x", name |-> "Ann",
                 plan |-> "free", stripe_customer_id |-> ""]]
  /\ conversations = <<>>
  /\ messages = <<>>
  /\ subscriptions = <<>>
  /\ req = [r \in Reqs |-> Idle]
  /\ failed = {}
  /\ out = NoOut
  /\ stripeCustomers = <<>>
  /\ checkoutSessions = <<>>
  /\ checkout = [c \in Checkouts |-> IdleCheckout]

\* A server whose database holds a long conversation of u1.
InitLong ==
  /\ env = [production |-> FALSE, devUserId |-> "", anthropic |-> TRUE,
            openai |-> FALSE, stripe |-> FALSE]
  /\ now = 0
  /\ nextId = 1
  /\ users = [u \in {"u1"} |-> [email |-> "a@x", name |-> "Ann", plan |-> "free",
                                 stripe_customer_id |-> ""]]
  /\ \E n \in LongSizes :
       /\ conversations = <<[id |-> LongConvId, user_id |-> "u1", title |-> <<"h", "i">>,
                             created_at |-> 0 - n, updated_at |-> 0 - n]>>
       /\ messages = LongMessages(n)
       /\ failed = IF n % 2 = 1 THEN {LongConvId + n} ELSE {}
  /\ subscriptions = <<>>
  /\ req = [r \in Reqs |-> Idle]
  /\ out = NoOut
  /\ stripeCustomers = <<>>
  /\ checkoutSessions = <<>>
  /\ checkout = [c \in Checkouts |-> IdleCheckout]

\* --------------------------------------------------------------- actions
\* The rows stamped with the current second.
StampedNow ==
  {i \in 1..Len(conversations) : conversations[i].created_at = now}
    \cup {i \in 1..Len(messages) : messages[i].created_at = now}

\* The clock reaches the next second. A second in which no row was written
\* leaves no trace in the store, so the clock is only followed from one
\* stamped second to the next.
Tick ==
  /\ now < MaxClock
  /\ StampedNow # {}
  /\ now' = now + 1
  /\ out' = NoOut
  /\ UNCHANGED <<env, stripeCustomers, checkoutSessions, checkout, nextId, users, conversations, messages, subscriptions, req, failed>>

\* POST /api/auth/register
Register(id, email, name) ==
  /\ UNCHANGED <<env, stripeCustomers, checkoutSessions, checkout, now, nextId, conversations, messages, subscriptions, req, failed>>
  /\ IF id = "" \/ email = ""
       THEN /\ out' = Response("register", 400, "Missing id or email")
            /\ UNCHANGED users
     ELSE IF \E u \in DOMAIN users : u # id /\ users[u].email = email
       \* email TEXT UNIQUE NOT NULL
       THEN /\ out' = Response("register", 500, "Failed to register user")
            /\ UNCHANGED users
     ELSE IF id \in DOMAIN users
       THEN /\ users' = [users EXCEPT ![id].email = email, ![id].name = name]
            /\ out' = Response("register", 200, "success")
     ELSE /\ users' = [u \in DOMAIN users \cup {id} |->
                         IF u = id
                           THEN [email |-> email, name |-> name, plan |-> "free",
                                 stripe_customer_id |-> ""]
                           ELSE users[u]]
          /\ out' = Response("register", 200, "success")

\* POST /api/chat, from the middleware to the first await: the caller is
\* resolved, the body validated and, without a conversationId, a conversation
\* inserted.
ChatReceive(r, src, message, conversationId, model) ==
  /\ req[r].pc = "idle"
  /\ \A q \in Reqs : q < r => req[q].pc # "idle"
  /\ UNCHANGED <<env, stripeCustomers, checkoutSessions, checkout, now, users, messages, subscriptions, failed>>
  /\ LET auth == flexibleAuth(src)
         m == IF model = Undefined THEN "claude-3-5-sonnet" ELSE model
     IN
     IF auth.status = 401
       THEN /\ out' = Response("chat", 401, "Unauthorized")
            /\ UNCHANGED <<nextId, conversations, req>>
     ELSE IF message = <<>>
       THEN /\ out' = Response("chat", 400, "Message is required")
            /\ UNCHANGED <<nextId, conversations, req>>
     ELSE IF conversationId # 0
       THEN /\ req' = [req EXCEPT ![r] =
                         [Idle EXCEPT !.pc = "load", !.userId = auth.userId,
                                      !.convId = conversationId, !.message = message,
                                      !.model = m]]
            /\ out' = NoOut
            /\ UNCHANGED <<nextId, conversations>>
     ELSE IF CanInsertConversation(nextId, auth.userId)
       THEN /\ nextId <= MaxIds
            /\ conversations' = Append(conversations,
                 ConversationRow(nextId, auth.userId, Substring(message, TitleLength)))
            /\ nextId' = nextId + 1
            /\ req' = [req EXCEPT ![r] =
                         [Idle EXCEPT !.pc = "load", !.userId = auth.userId,
                                      !.convId = nextId, !.message = message,
                                      !.model = m]]
            /\ out' = NoOut
     ELSE /\ out' = ChatFailure("FOREIGN KEY constraint failed")
          /\ UNCHANGED <<nextId, conversations, req>>

\* The history is selected.
ChatLoadHistory(r) ==
  /\ req[r].pc = "load"
  /\ \E history \in SelectHistory(req[r].convId) :
       req' = [req EXCEPT ![r].pc = "save", ![r].history = history,
                          ![r].loadedAt = Len(messages)]
  /\ out' = NoOut
  /\ UNCHANGED <<env, stripeCustomers, checkoutSessions, checkout, now, nextId, users, conversations, messages, subscriptions, failed>>

\* The handler going on to the router without inserting the user message.
ChatSaveUserSkipped(r) ==
  /\ req[r].pc = "save"
  /\ req' = [req EXCEPT ![r].pc = "dispatch"]
  /\ out' = NoOut
  /\ UNCHANGED <<env, stripeCustomers, checkoutSessions, checkout, now, nextId, users, conversations, messages, subscriptions, failed>>

\* The user message is inserted.
ChatSaveUser(r) ==
  /\ req[r].pc = "save"
  /\ UNCHANGED <<env, stripeCustomers, checkoutSessions, checkout, now, users, conversations, subscriptions, failed>>
  /\ IF CanInsertMessage(req[r].convId)
       THEN /\ nextId <= MaxIds
            /\ messages' = Append(messages,
                 MessageRow(nextId, req[r].convId, "user", req[r].message, "", 0, 0))
            /\ nextId' = nextId + 1
            /\ req' = [req EXCEPT ![r].pc = "dispatch", ![r].userMsgId = nextId]
            /\ out' = NoOut
       ELSE /\ Finish(r, ChatFailure("FOREIGN KEY constraint failed"))
            /\ UNCHANGED <<nextId, messages>>

\* aiRouter.chat is called with the history and the new message: it throws,
\* or the adapter sends its request to the vendor.
ChatDispatch(r) ==
  /\ req[r].pc = "dispatch"
  /\ UNCHANGED <<env, stripeCustomers, checkoutSessions, checkout, now, nextId, users, conversations, messages, subscriptions>>
  /\ IF ChatError(req[r].model) = ""
       THEN /\ req' = [req EXCEPT ![r].pc = "await",
                                  ![r].sent = Payload(req[r].history, req[r].message)]
            /\ out' = NoOut
            /\ UNCHANGED failed
       ELSE /\ Finish(r, ChatFailure(ChatError(req[r].model)))
            /\ failed' = failed \cup {req[r].userMsgId}

\* The vendor fails: the adapter's promise rejects.
ChatProviderError(r) ==
  /\ req[r].pc = "await"
  /\ Finish(r, ChatFailure("Provider error"))
  /\ failed' = failed \cup {req[r].userMsgId}
  /\ UNCHANGED <<env, stripeCustomers, checkoutSessions, checkout, now, nextId, users, conversations, messages, subscriptions>>

\* The vendor replies: the assistant message is inserted and the request
\* answered.
ChatProviderReply(r, reply) ==
  /\ req[r].pc = "await"
  /\ UNCHANGED <<env, stripeCustomers, checkoutSessions, checkout, now, users, conversations, subscriptions, failed>>
  /\ LET response == ChatResult(req[r].model, reply) IN
     IF CanInsertMessage(req[r].convId)
       THEN /\ nextId <= MaxIds
            /\ messages' = Append(messages,
                 MessageRow(nextId, req[r].convId, "assistant", response.content,
                            response.model, response.usage.totalTokens,
                            response.usage.cost))
            /\ nextId' = nextId + 1
            /\ Finish(r, Response("chat", 200,
                 [message |-> response.content, conversationId |-> req[r].convId,
                  model |-> response.model, usage |-> response.usage]))
       ELSE /\ Finish(r, ChatFailure("FOREIGN KEY constraint failed"))
            /\ UNCHANGED <<nextId, messages>>

\* GET /api/chat/conversations
GetConversations(src) ==
  /\ UNCHANGED <<env, stripeCustomers, checkoutSessions, checkout, now, nextId, users, conversations, messages, subscriptions,
                 req, failed>>
  /\ LET auth == flexibleAuth(src) IN
     IF auth.status = 401
       THEN out' = [kind |-> "list", status |-> 401, src |-> src,
                    body |-> "Unauthorized"]
       ELSE \E s \in OrderByUpdatedDesc(ConversationsOf(auth.userId)) :
              out' = [kind |-> "list", status |-> 200, caller |-> auth.userId,
                      src |-> src,
                      body |-> [k \in 1..Len(Limit(s, ConversationLimit)) |->
                                  [id |-> conversations[s[k]].id,
                                   title |-> conversations[s[k]].title,
                                   created_at |-> conversations[s[k]].created_at,
                                   updated_at |-> conversations[s[k]].updated_at]]]

\* GET /api/chat/conversations/:id
GetConversation(src, id) ==
  /\ UNCHANGED <<env, stripeCustomers, checkoutSessions, checkout, now, nextId, users, conversations, messages, subscriptions,
                 req, failed>>
  /\ LET auth == flexibleAuth(src)
         found == SelectConversation(id, auth.userId)
     IN
     IF auth.status = 401
       THEN out' = Response("conversation", 401, "Unauthorized")
     ELSE IF found = {}
       THEN out' = [kind |-> "conversation", status |-> 404, caller |-> auth.userId,
                    id |-> id, body |-> "Conversation not found"]
     ELSE \E i \in found, s \in OrderByCreatedAsc(MessagesOf(id)) :
            out' = [kind |-> "conversation", status |-> 200, caller |-> auth.userId,
                    id |-> id,
                    body |-> [conversation |-> conversations[i],
                              messages |-> [k \in 1..Len(s) |->
                                 [id |-> messages[s[k]].id, role |-> messages[s[k]].role,
                                  content |-> messages[s[k]].content,
                                  model |-> messages[s[k]].model,
                                  created_at |-> messages[s[k]].created_at]]]]

\* POST /api/stripe/webhook; `signed` is whether constructEvent accepts the
\* signature.
StripeWebhook(signed, event) ==
  /\ UNCHANGED <<env, stripeCustomers, checkoutSessions, checkout, now, nextId, conversations, messages, req, failed>>
  /\ IF ~env.stripe
       THEN /\ out' = Response("webhook", 500, "Stripe not configured")
            /\ UNCHANGED <<users, subscriptions>>
     ELSE IF ~signed
       THEN /\ out' = Response("webhook", 400, "Webhook Error")
            /\ UNCHANGED <<users, subscriptions>>
     ELSE IF event.type = "checkout.session.completed"
       THEN IF event.userId # "" /\ event.plan # ""
              THEN /\ Len(subscriptions) < MaxSubs
                   /\ users' = [u \in DOMAIN users |->
                                  IF u = event.userId
                                    THEN [users[u] EXCEPT !.plan = event.plan]
                                    ELSE users[u]]
                   /\ IF CanInsertSubscription(event.userId)
                        THEN /\ subscriptions' = Append(subscriptions,
                                   [user_id |-> event.userId,
                                    stripe_subscription_id |-> event.subscription,
                                    plan |-> event.plan, status |-> "active"])
                             /\ out' = Response("webhook", 200, "received")
                        \* the handler has no catch: the rejection is unhandled
                        ELSE /\ UNCHANGED subscriptions
                             /\ out' = [kind |-> "webhook", status |-> 0,
                                        body |-> "unhandled rejection"]
              ELSE /\ out' = Response("webhook", 200, "received")
                   /\ UNCHANGED <<users, subscriptions>>
     ELSE IF event.type \in {"customer.subscription.updated",
                             "customer.subscription.deleted"}
       THEN /\ subscriptions' = [k \in 1..Len(subscriptions) |->
                 IF subscriptions[k].stripe_subscription_id = event.subscription
                   THEN [subscriptions[k] EXCEPT !.status = event.status]
                   ELSE subscriptions[k]]
            /\ out' = Response("webhook", 200, "received")
            /\ UNCHANGED users
     ELSE /\ out' = Response("webhook", 200, "received")
          /\ UNCHANGED <<users, subscriptions>>

\* POST /api/stripe/create-checkout, from the middleware to the first call of
\* Stripe: the plan is validated, the user's customer id selected and, when
\* there is none, the creation of a customer requested.
CheckoutReceive(c, src, plan) ==
  /\ checkout[c].pc = "idle"
  /\ \A q \in Checkouts : q < c => checkout[q].pc # "idle"
  /\ UNCHANGED <<env, now, nextId, users, conversations, messages, subscriptions,
                 req, failed, stripeCustomers, checkoutSessions>>
  /\ LET auth == flexibleAuth(src)
         customerId == StoredCustomerId(auth.userId)
     IN
     IF auth.status = 401
       THEN /\ out' = Response("checkout", 401, "Unauthorized")
            /\ UNCHANGED checkout
     ELSE IF ~env.stripe
       THEN /\ out' = Response("checkout", 500, "Stripe not configured")
            /\ UNCHANGED checkout
     ELSE IF plan \notin DOMAIN PLANS \/ PLANS[plan].priceId = ""
       THEN /\ out' = Response("checkout", 400, "Invalid plan")
            /\ UNCHANGED checkout
     ELSE /\ checkout' = [checkout EXCEPT ![c] =
                 [pc |-> IF customerId = "" THEN "customer" ELSE "session",
                  userId |-> auth.userId, plan |-> plan, customerId |-> customerId]]
          /\ out' = NoOut

\* stripe.customers.create resolves: the new customer's id is stored on the
\* user and the creation of the checkout session requested.
CheckoutCustomerCreated(c) ==
  /\ checkout[c].pc = "customer"
  /\ Len(stripeCustomers) < MaxCustomers
  /\ LET id == CustomerId(Len(stripeCustomers) + 1) IN
     /\ stripeCustomers' = Append(stripeCustomers,
                                  [id |-> id, userId |-> checkout[c].userId])
     \* UPDATE users SET stripe_customer_id = ? WHERE id = ?
     /\ users' = [u \in DOMAIN users |->
                    IF u = checkout[c].userId
                      THEN [users[u] EXCEPT !.stripe_customer_id = id]
                      ELSE users[u]]
     /\ checkout' = [checkout EXCEPT ![c].pc = "session", ![c].customerId = id]
  /\ out' = NoOut
  /\ UNCHANGED <<env, now, nextId, conversations, messages, subscriptions, req,
                 failed, checkoutSessions>>

\* stripe.checkout.sessions.create resolves: the request is answered.
CheckoutSessionCreated(c) ==
  /\ checkout[c].pc = "session"
  /\ Len(checkoutSessions) < MaxSessions
  /\ checkoutSessions' = Append(checkoutSessions,
                                [customer |-> checkout[c].customerId,
                                 userId |-> checkout[c].userId,
                                 plan |-> checkout[c].plan])
  /\ FinishCheckout(c, Response("checkout", 200, "session"))
  /\ UNCHANGED <<env, now, nextId, users, conversations, messages, subscriptions,
                 req, failed, stripeCustomers>>

\* A call of Stripe rejects: the catch block answers.
CheckoutStripeError(c) ==
  /\ checkout[c].pc \in {"customer", "session"}
  /\ FinishCheckout(c, Response("checkout", 500, "Failed to create checkout session"))
  /\ UNCHANGED <<env, now, nextId, users, conversations, messages, subscriptions,
                 req, failed, stripeCustomers, checkoutSessions>>

\* ------------------------------------------------------- specifications
\* The requests of POST /api/chat of the slots R, with texts T, models M,
\* callers A and conversation ids C.
ChatRequest(R, T, M, A, C) ==
  \E r \in R, src \in A, message \in T, conversationId \in C, model \in M :
    ChatReceive(r, src, message, conversationId, model)

ChatStep(R) ==
  \E r \in R :
    \/ ChatLoadHistory(r)
    \/ ChatSaveUser(r)
    \/ ChatDispatch(r)
    \/ ChatProviderError(r)
    \/ \E reply \in Replies : ChatProviderReply(r, reply)

\* Registration and the chat routes, one chat request at a time.
Next ==
  \/ Tick
  \/ \E id \in UserIds \cup {""}, email \in Emails \cup {""}, name \in Names :
       Register(id, email, name)
  \/ ChatRequest({1}, Texts \cup {<<>>}, {Undefined}, AuthInputs, ConversationIds \cup {0, StaleId})
  \/ ChatStep({1})
  \/ \E src \in AuthInputs : GetConversations(src)
  \/ \E src \in AuthInputs, id \in ConversationIds \cup {StaleId} :
       GetConversation(src, id)

Spec == Init /\ [][Next]_vars

\* Every route that writes to the database, one chat request at a time.
NextStore ==
  \/ Tick
  \/ \E id \in UserIds \cup {""}, email \in Emails \cup {""}, name \in Names :
       Register(id, email, name)
  \/ \E signed \in BOOLEAN, event \in Events : StripeWebhook(signed, event)
  \/ ChatRequest({1}, Texts \cup {<<>>}, {Undefined}, AuthInputs, ConversationIds \cup {0, StaleId})
  \/ ChatStep({1})

SpecStore == Init /\ [][NextStore]_vars

\* One user chatting with every model, under every set of API keys.
NextRouter ==
  \/ Register("u1", "a@x", "Ann")
  \/ ChatRequest({1}, Texts, ModelInputs, {Session("u1")}, ConversationIds \cup {0})
  \/ ChatStep({1})

SpecRouter == InitRouter /\ [][NextRouter]_vars

\* One user chatting in a long conversation and in new ones, two requests at
\* a time.
NextLong ==
  \/ Tick
  \/ ChatRequest(Reqs, Texts, {Undefined}, {Session("u1")}, ConversationIds \cup {0})
  \/ ChatStep(Reqs)
  \/ GetConversations(Session("u1"))

SpecLong == InitLong /\ [][NextLong]_vars

\* The vendor replies with one of the replies Rs.
ChatReplies(R, Rs) ==
  \E r \in R, reply \in Rs : ChatProviderReply(r, reply)

\* One user chatting with each registered model, the vendors reporting
\* different token counts.
NextCost ==
  \/ Register("u1", "a@x", "Ann")
  \/ ChatRequest({1}, Texts, DOMAIN MODELS, {Session("u1")}, ConversationIds \cup {0})
  \/ ChatStep({1})
  \/ ChatReplies({1}, UsageReplies)

SpecCost == InitCost /\ [][NextCost]_vars

\* Registered users opening checkouts, two requests at a time.
NextCheckout ==
  \/ Register("u1", "a@x", "Ann")
  \/ \E c \in Checkouts, src \in AuthInputs, plan \in PlanInputs :
       CheckoutReceive(c, src, plan)
  \/ \E c \in Checkouts :
       \/ CheckoutCustomerCreated(c)
       \/ CheckoutSessionCreated(c)
       \/ CheckoutStripeError(c)

SpecCheckout == InitCheckout /\ [][NextCheckout]_vars

\* Requests carrying every combination of identities, in every environment.
NextAuth ==
  \/ \E id \in {"u1", "dev1"} : Register(id, "a@x", "Ann")
  \/ ChatRequest({1}, Texts, {Undefined}, Sources, {0})
  \/ ChatStep({1})
  \/ \E src \in Sources : GetConversations(src)

SpecAuth == InitAuth /\ [][NextAuth]_vars

\* ================================================================ claims
\* The rows of the conversation of request r that were in the table when
\* its history was selected.
PersistedAtLoad(r) ==
  {i \in 1..req[r].loadedAt : messages[i].conversation_id = req[r].convId}

\* The rows of messages that the history of request r holds.
Replayed(r) ==
  {i \in 1..Len(messages) :
     \E k \in 1..Len(req[r].history) : req[r].history[k].id = messages[i].id}

\* C1: the list handed to the provider adapter is the messages persisted for
\* the conversation when the history was loaded, oldest first and cut after
\* the first 20, followed by the new user message, which is its last element
\* and occurs nowhere else in it.
C1_HistoryThenNewMessage ==
  \A r \in Reqs : req[r].pc = "await" =>
    LET h == req[r].history
        P == PersistedAtLoad(r)
        row(k) == CHOOSE i \in 1..Len(messages) : messages[i].id = h[k].id
    IN /\ Len(h) = Min(Cardinality(P), HistoryLimit)
       /\ \A k \in 1..Len(h) :
            /\ \E i \in P : messages[i].id = h[k].id
            /\ h[k].role = messages[row(k)].role
            /\ h[k].content = messages[row(k)].content
       /\ \A k, l \in 1..Len(h) :
            k < l => /\ h[k].id # h[l].id
                     /\ messages[row(k)].created_at <= messages[row(l)].created_at
       /\ \A i \in P \ Replayed(r) : \A k \in 1..Len(h) :
            messages[row(k)].created_at <= messages[i].created_at
       /\ Len(req[r].sent) = Len(h) + 1
       /\ \A k \in 1..Len(h) :
            req[r].sent[k] = [role |-> h[k].role, content |-> h[k].content]
       /\ req[r].sent[Len(h) + 1] = [role |-> "user", content |-> req[r].message]
       /\ \A k \in 1..Len(h) : h[k].id # req[r].userMsgId

\* A request in a conversation of more than 20 messages is with the adapter.
C1_Witness ==
  \E r \in Reqs : /\ req[r].pc = "await"
                      /\ Cardinality(PersistedAtLoad(r)) > HistoryLimit
                      /\ Len(req[r].sent) = HistoryLimit + 1

\* C2: the history of a request holds the most recent message that was
\* persisted for its conversation when the history was loaded.
C2_MostRecentReplayed ==
  \A r \in Reqs : req[r].pc \in {"save", "dispatch", "await"} =>
    \A i \in PersistedAtLoad(r) :
      (\A j \in PersistedAtLoad(r) : j <= i) => i \in Replayed(r)

\* C5: the user message of a request that failed in the router or the
\* provider stays in the table, and every request on the same conversation
\* that loads its history afterwards finds it there.
C5_FailedTurnKept ==
  \A id \in failed :
    /\ \E i \in 1..Len(messages) : messages[i].id = id /\ messages[i].role = "user"
    /\ \A r \in Reqs, i \in 1..Len(messages) :
         ( /\ req[r].pc \in {"save", "dispatch", "await"}
           /\ messages[i].id = id
           /\ messages[i].conversation_id = req[r].convId
           /\ i <= req[r].loadedAt )
         => i \in Replayed(r)

\* C6: the earlier messages in the list handed to a provider are at most 20,
\* and no message of the list is older than one before it.
C6_WindowBoundedOldestFirst ==
  \A r \in Reqs : req[r].pc = "await" =>
    LET n == Len(req[r].sent) - 1
        at(k) == LET i == CHOOSE i \in 1..Len(messages) :
                            messages[i].id = req[r].history[k].id
                 IN messages[i].created_at
    IN /\ n <= HistoryLimit
       /\ n = Len(req[r].history)
       /\ \A k \in 1..n :
            req[r].sent[k] = [role |-> req[r].history[k].role,
                              content |-> req[r].history[k].content]
       /\ \A k, l \in 1..n : k < l => at(k) <= at(l)
       /\ \A k \in 1..n : \A i \in 1..Len(messages) :
            messages[i].id = req[r].userMsgId => at(k) <= messages[i].created_at

\* A request whose conversation held 21 messages is with the adapter with a
\* window of exactly 20.
C6_Witness ==
  \E r \in Reqs : /\ req[r].pc = "await"
                   /\ Len(req[r].sent) = HistoryLimit + 1
                   /\ Cardinality(MessagesOf(req[r].convId)) > HistoryLimit + 1

\* The second of the latest message of conversation id.
LastMessageAt(id) ==
  LET i == CHOOSE i \in MessagesOf(id) :
             \A j \in MessagesOf(id) : messages[j].created_at <= messages[i].created_at
  IN messages[i].created_at

\* C10: in the list GET /api/chat/conversations answers, a conversation comes
\* before every conversation whose latest message is older than its own.
C10_LatestMessageFirst ==
  (out.kind = "list" /\ out.status = 200) =>
    \A k, l \in 1..Len(out.body) :
      ( /\ MessagesOf(out.body[k].id) # {}
        /\ MessagesOf(out.body[l].id) # {}
        /\ LastMessageAt(out.body[k].id) > LastMessageAt(out.body[l].id) )
      => k < l

\* C3: a request that has read the history of a conversation, or appended a
\* message to it, was made by the user who owns the conversation.
C3_CallerOwnsConversation ==
  \A r \in Reqs : req[r].pc \in {"save", "dispatch", "await"} =>
    \A i \in 1..Len(conversations) :
      conversations[i].id = req[r].convId => conversations[i].user_id = req[r].userId

\* C4: GET /api/chat/conversations/:id answers a caller who owns no
\* conversation of that id with 404 and the one fixed body, whether or not
\* the id is a conversation of somebody else.
C4_NotOwnedIsNotFound ==
  (out.kind = "conversation" /\ out.status # 401) =>
    ( (~\E i \in 1..Len(conversations) :
          conversations[i].id = out.id /\ conversations[i].user_id = out.caller)
      => (out.status = 404 /\ out.body = "Conversation not found") )

\* The conversation asked for exists, belongs to somebody else and holds a
\* message, and the answer is the 404.
C4_Witness ==
  /\ out.kind = "conversation"
  /\ out.status = 404
  /\ \E i \in 1..Len(conversations) :
       /\ conversations[i].id = out.id
       /\ conversations[i].user_id # out.caller
       /\ MessagesOf(out.id) # {}

\* C8: GET /api/chat/conversations/:id answers the owner with the messages
\* appended to the conversation, each once, in the order of their insertion.
C8_RoundTripInsertionOrder ==
  (out.kind = "conversation" /\ out.status = 200) =>
    LET got == out.body.messages IN
    /\ Len(got) = Cardinality(MessagesOf(out.id))
    /\ \A k \in 1..Len(got) :
         \E i \in MessagesOf(out.id) :
           /\ messages[i].id = got[k].id
           /\ Cardinality({j \in MessagesOf(out.id) : j <= i}) = k

\* C9: every message belongs to a conversation of the table and every
\* conversation to a user of the table.
C9_ReferentialIntegrity ==
  /\ \A i \in 1..Len(messages) :
       \E c \in 1..Len(conversations) : conversations[c].id = messages[i].conversation_id
  /\ \A c \in 1..Len(conversations) : conversations[c].user_id \in DOMAIN users

\* A chat request was refused by a foreign key while the tables hold a
\* conversation and a message.
C9_Witness ==
  /\ out.kind = "chat"
  /\ out.status = 500
  /\ out.log = "FOREIGN KEY constraint failed"
  /\ messages # <<>>

\* C7: a request leaves the router for the vendor only with a registered
\* model whose provider has its key; with an unregistered model it fails as
\* an unknown model, and with a keyless provider as an unconfigured one.
C7_CallOnlyWhenAvailable ==
  [][\A r \in Reqs :
       (req[r].pc = "dispatch" /\ req'[r].pc # "dispatch") =>
         LET model == req[r].model
             registered == model \in DOMAIN MODELS
         IN /\ req'[r].pc = "await" =>
                 (registered /\ Client(MODELS[model].provider))
            /\ ~registered =>
                 (req'[r].pc = "idle" /\ out'.status = 500 /\ out'.log = "Unknown model")
            /\ (registered /\ ~Client(MODELS[model].provider)) =>
                 ( /\ req'[r].pc = "idle"
                   /\ out'.status = 500
                   /\ out'.log \in {"Anthropic API key not configured",
                                    "OpenAI API key not configured"} )]_vars

\* C11: a successful chat returns and persists the cost
\* (inputTokens / 1000) * inputPrice + (outputTokens / 1000) * outputPrice at
\* the registry prices of its model, whichever the provider, and the total
\* inputTokens + outputTokens.
C11_CostFormula ==
  (out.kind = "chat" /\ out.status = 200) =>
    LET usage == out.body.usage
        row == messages[Len(messages)]
    IN /\ \E m \in DOMAIN MODELS :
            /\ MODELS[m].modelId = out.body.model
            /\ 1000 * usage.cost = usage.inputTokens * MODELS[m].inputCostPer1k
                                     + usage.outputTokens * MODELS[m].outputCostPer1k
       /\ usage.totalTokens = usage.inputTokens + usage.outputTokens
       /\ row.role = "assistant"
       /\ row.model = out.body.model
       /\ row.cost = usage.cost
       /\ row.tokens_used = usage.totalTokens

\* A chat with a model of the second provider was answered, with token counts
\* that are no multiples of 1000 and different prices for input and output.
C11_Witness ==
  /\ out.kind = "chat"
  /\ out.status = 200
  /\ out.body.model = "gpt-4o-mini"
  /\ out.body.usage.inputTokens = 1
  /\ out.body.usage.outputTokens = 500
  /\ out.body.usage.cost = 15 + 30000
  /\ messages[Len(messages)].cost = 15 + 30000

\* The rows of a messages table that hold an assistant message.
AssistantRows(table) == {i \in 1..Len(table) : table[i].role = "assistant"}

\* The order of the steps of one request: resolve the conversation, load the
\* history, persist the user message, dispatch, then persist the assistant
\* message and respond; a failure ends the request from where it is.
StepOrder ==
  { <<"idle", "load">>, <<"load", "save">>, <<"save", "dispatch">>,
    <<"dispatch", "await">>, <<"await", "idle">>,
    <<"save", "idle">>, <<"dispatch", "idle">> }

\* C12: a request takes its steps in the order ResolveConversation,
\* LoadHistory, PersistUserMessage, Dispatch, PersistAssistantMessage, Respond;
\* an assistant message is inserted only by a request whose dispatch succeeded
\* and whose user message is in the table, and a request that fails inserts
\* none.
C12_StepOrder ==
  [][ /\ \A r \in Reqs :
           req'[r].pc # req[r].pc => <<req[r].pc, req'[r].pc>> \in StepOrder
      /\ AssistantRows(messages') # AssistantRows(messages) =>
           \E r \in Reqs :
             /\ req[r].pc = "await"
             /\ req'[r].pc = "idle"
             /\ out'.kind = "chat"
             /\ out'.status = 200
             /\ \E i \in 1..Len(messages) :
                  /\ messages[i].id = req[r].userMsgId
                  /\ messages[i].role = "user"
                  /\ messages[i].conversation_id = req[r].convId
             /\ Len(messages') = Len(messages) + 1
             /\ SubSeq(messages', 1, Len(messages)) = messages
             /\ messages'[Len(messages')].role = "assistant"
             /\ messages'[Len(messages')].conversation_id = req[r].convId
      /\ (out'.kind = "chat" /\ out'.status # 200) =>
           AssistantRows(messages') = AssistantRows(messages)
      /\ (out'.kind = "chat" /\ out'.status = 200) =>
           AssistantRows(messages') # AssistantRows(messages) ]_vars

\* A request was answered after its dispatch succeeded: its user message and,
\* after it, its assistant message are in the table.
C12_Witness ==
  /\ out.kind = "chat"
  /\ out.status = 200
  /\ Len(messages) >= 2
  /\ messages[Len(messages)].role = "assistant"
  /\ messages[Len(messages) - 1].role = "user"
  /\ messages[Len(messages) - 1].conversation_id = messages[Len(messages)].conversation_id

\* C13: Stripe holds at most one customer for a registered user, and every
\* checkout session created for the user is for the customer whose id is stored
\* on the user.
C13_OneCustomerPerUser ==
  \A u \in DOMAIN users :
    /\ Cardinality(CustomersOf(u)) <= 1
    /\ \A k \in 1..Len(checkoutSessions) :
         checkoutSessions[k].userId = u =>
           checkoutSessions[k].customer = users[u].stripe_customer_id

\* The sources of identity, from the one that wins to the one that loses.
Precedence == <<"session", "clerk", "header", "query">>

\* The sources of src that carry an identity.
Present(src) == {k \in 1..Len(Precedence) : src[Precedence[k]] # ""}

\* C14: the caller is the identity of the first of session, Clerk, x-user-id
\* header and userId query parameter that is present; with none present the
\* request is answered 401 in production and runs as the dev user (DEV_USER_ID,
\* else 'dev-user') elsewhere; a handler that runs has a non-empty userId.
C14_AuthPrecedence ==
  /\ out.kind = "list" =>
       LET present == Present(out.src) IN
       IF present = {}
         THEN IF env.production
                THEN out.status = 401 /\ out.body = "Unauthorized"
                ELSE /\ out.status = 200
                     /\ out.caller = (IF env.devUserId # "" THEN env.devUserId
                                                         ELSE "dev-user")
         ELSE /\ out.status = 200
              /\ \E k \in present :
                   /\ \A j \in present : k <= j
                   /\ out.caller = out.src[Precedence[k]]
  /\ (out.kind = "list" /\ out.status = 200) => out.caller # ""
  /\ \A r \in Reqs : req[r].pc # "idle" => req[r].userId # ""

\* A request carrying a Clerk identity, a header and a query parameter, and no
\* session, was served as the Clerk identity.
C14_Witness ==
  /\ out.kind = "list"
  /\ out.status = 200
  /\ out.src = [session |-> "", clerk |-> "u2", header |-> "u3", query |-> "u4"]
  /\ out.caller = "u2"

====
